---- MODULE Spec2Model ----
(***************************************************************************)
(* The resource-archive text patcher of AGIHebrew:                         *)
(*   tools/apply_inventory_descriptions_batch.py  (the patcher)            *)
(*   tools/read_viewdir_u24.py                    (the listing tool)       *)
(* VIEWDIR is a table of 3-byte offsets into VOL.0; the patcher overwrites *)
(* the text payload of a VIEW resource in place, the listing tool reads it *)
(* back.  Files are sequences of bytes (1-based here, 0-based offsets in   *)
(* the code: file offset p is element p+1).                                *)
(***************************************************************************)
EXTENDS Integers, Sequences, FiniteSets, TLC

\* viewdir, vol: the files VIEWDIR and VOL.0; vol0: VOL.0 at the start;
\* prev: VOL.0 before the last operation; last: the last operation and what
\* it returned or printed; batch: the run of the batch driver (main)
VARIABLES viewdir, vol, vol0, prev, last, batch

vars == <<viewdir, vol, vol0, prev, last, batch>>

ABSENT == 16777215

(* ------------------------------ bounds -------------------------------- *)
\* longest run of 'A' offered as a message (one more than the capacity of the
\* first resource's text region)
MaxFill == 11
\* most entries of a directory table in the read-only specification
MaxEntries == 3
\* most lines of a batch input file
MaxLines == 3

(* ----------------------------- file access ---------------------------- *)
Min(a, b) == IF a < b THEN a ELSE b
Max(a, b) == IF a > b THEN a ELSE b

\* f.seek(pos); f.read(n): the bytes at offsets pos .. pos+n-1, cut at EOF
ReadAt(file, pos, n) ==
    LET hi == Min(pos + n, Len(file))
    IN  IF n <= 0 \/ pos >= hi THEN <<>>
        ELSE [k \in 1..(hi - pos) |-> file[pos + k]]

\* open('r+b'); f.seek(pos); f.write(buf): overwrites in place, and past EOF
\* the file grows (a gap between EOF and pos reads back as zero bytes)
WriteAt(file, pos, buf) ==
    IF Len(buf) = 0 THEN file
    ELSE [k \in 1..Max(Len(file), pos + Len(buf)) |->
            IF k > pos /\ k <= pos + Len(buf) THEN buf[k - pos]
            ELSE IF k <= Len(file) THEN file[k]
            ELSE 0]

(* --------------------------- directory codec -------------------------- *)
\* the three bytes taken low byte first
u24_low_byte_first(b) == b[3] * 65536 + b[2] * 256 + b[1]

\* int.from_bytes(b, byteorder="big") of three bytes
u24_from_bytes(b) == b[1] * 65536 + b[2] * 256 + b[3]

\* count = len(data) // 3
entry_count(data) == Len(data) \div 3

\* entry(i) = u24_from_bytes(data[3i : 3i+3])
entry(data, i) == u24_from_bytes(ReadAt(data, i * 3, 3))

\* the scan for the next present entry started one entry too far
next_index_skipping(data, index) ==
    LET later == {j \in (index + 2)..(entry_count(data) - 1) : entry(data, j) # ABSENT}
    IN  IF later = {} THEN -1
        ELSE CHOOSE j \in later : \A k \in later : j <= k

\* the forward scan "for j in range(index + 1, count)": the first later index
\* whose entry is not ABSENT, or -1 (None) when there is none
next_index(data, index) ==
    LET later == {j \in (index + 1)..(entry_count(data) - 1) : entry(data, j) # ABSENT}
    IN  IF later = {} THEN -1
        ELSE CHOOSE j \in later : \A k \in later : j <= k

Fail(e) == [ok |-> FALSE, err |-> e, off |-> 0, size |-> 0]
Span(o, s) == [ok |-> TRUE, err |-> "none", off |-> o, size |-> s]

(* ------------------------ resource span resolvers --------------------- *)
\* the patcher's resolver with the fallback size taken to be the store length
get_offset_and_size_whole_store(index, data, vol_size) ==
    IF index < 0 \/ index >= entry_count(data) THEN Fail("IndexOutOfRange")
    ELSE LET cur == entry(data, index)
             j == next_index(data, index)
             size == IF j # -1 THEN entry(data, j) - cur
                     ELSE Max(0, vol_size)
         IN  IF cur = ABSENT THEN Fail("AbsentResource")
             ELSE IF size <= 0 THEN Fail("InvalidSpan")
             ELSE Span(cur, size)

\* the patcher's resolver
get_offset_and_size_with_fallback(index, data, vol_size) ==
    IF index < 0 \/ index >= entry_count(data) THEN Fail("IndexOutOfRange")
    ELSE LET cur == entry(data, index)
             j == next_index(data, index)
             size == IF j # -1 THEN entry(data, j) - cur
                     ELSE Max(0, vol_size - cur)
         IN  IF cur = ABSENT THEN Fail("AbsentResource")
             ELSE IF size <= 0 THEN Fail("InvalidSpan")
             ELSE Span(cur, size)

\* the listing tool's resolver without fallback
get_view_offset_and_size(index, data) ==
    IF index < 0 \/ index >= entry_count(data) THEN Fail("IndexOutOfRange")
    ELSE LET cur == entry(data, index)
             j == next_index(data, index)
         IN  IF cur = ABSENT THEN Fail("AbsentResource")
             ELSE IF j = -1 THEN Fail("NoNextEntry")
             ELSE IF entry(data, j) - cur < 0 THEN Fail("NegativeSize")
             ELSE Span(cur, entry(data, j) - cur)

\* the listing tool's resolver with fallback, the ABSENT test left out
get_view_offset_and_size_unchecked(index, data, vol_size) ==
    IF index < 0 \/ index >= entry_count(data) THEN Fail("IndexOutOfRange")
    ELSE LET cur == entry(data, index)
             j == next_index(data, index)
         IN  IF j # -1 THEN Span(cur, entry(data, j) - cur)
             ELSE Span(cur, Max(0, vol_size - cur))

\* the listing tool's resolver with the end-of-store fallback
get_view_offset_and_size_with_fallback(index, data, vol_size) ==
    IF index < 0 \/ index >= entry_count(data) THEN Fail("IndexOutOfRange")
    ELSE LET cur == entry(data, index)
             j == next_index(data, index)
         IN  IF cur = ABSENT THEN Fail("AbsentResource")
             ELSE IF j # -1 THEN Span(cur, entry(data, j) - cur)
             ELSE Span(cur, Max(0, vol_size - cur))

(* --------------------------- text block locators ---------------------- *)
NoRegion(e) ==
    [ok |-> FALSE, err |-> e, payload_start |-> 0, capacity |-> 0, has_nul |-> FALSE]

\* the patcher's "text_offset = (hdr[1] << 8) | hdr[0]"
patcher_text_offset(hdr) == hdr[2] * 256 + hdr[1]

\* the listing tool's "text_offset = (hdr[0] << 8) | hdr[1]"
listing_text_offset(hdr) == hdr[1] * 256 + hdr[2]

\* the patcher's locator with the text block placed from the start of VOL.0
\* instead of from the start of the resource
compute_text_payload_region_unbased(offset, total_size, store) ==
    LET hdr == ReadAt(store, offset + 8, 2)
        wide == patcher_text_offset(hdr)
        text_offset == IF wide > total_size THEN hdr[2] ELSE wide
        start == text_offset + 3
        payload_start == start + 2
        capacity == total_size - (payload_start - offset)
        current == ReadAt(store, payload_start, capacity)
    IN  IF Len(hdr) # 2 THEN NoRegion("ShortHeader")
        ELSE IF text_offset > total_size THEN NoRegion("TextOffsetOutOfBounds")
        ELSE IF start + 2 > offset + total_size THEN NoRegion("InsufficientData")
        ELSE IF capacity <= 0 THEN NoRegion("NoCapacity")
        ELSE [ok |-> TRUE, err |-> "none", payload_start |-> payload_start,
              capacity |-> capacity,
              has_nul |-> (Len(current) > 0 /\ current[Len(current)] = 0)]

\* the patcher's locator letting through a region of no bytes
compute_text_payload_region_roomless(offset, total_size, store) ==
    LET hdr == ReadAt(store, offset + 8, 2)
        wide == patcher_text_offset(hdr)
        text_offset == IF wide > total_size THEN hdr[2] ELSE wide
        start == offset + text_offset + 3
        payload_start == start + 2
        capacity == total_size - (payload_start - offset)
        current == ReadAt(store, payload_start, capacity)
    IN  IF Len(hdr) # 2 THEN NoRegion("ShortHeader")
        ELSE IF text_offset > total_size THEN NoRegion("TextOffsetOutOfBounds")
        ELSE IF start + 2 > offset + total_size THEN NoRegion("InsufficientData")
        ELSE IF capacity < 0 THEN NoRegion("NoCapacity")
        ELSE [ok |-> TRUE, err |-> "none", payload_start |-> payload_start,
              capacity |-> capacity,
              has_nul |-> (Len(current) > 0 /\ current[Len(current)] = 0)]

\* the patcher's locator: the pointer is read at offset+8, low byte first
compute_text_payload_region(offset, total_size, store) ==
    LET hdr == ReadAt(store, offset + 8, 2)
        wide == patcher_text_offset(hdr)
        text_offset == IF wide > total_size THEN hdr[2] ELSE wide
        start == offset + text_offset + 3
        payload_start == start + 2
        capacity == total_size - (payload_start - offset)
        current == ReadAt(store, payload_start, capacity)
    IN  IF Len(hdr) # 2 THEN NoRegion("ShortHeader")
        ELSE IF text_offset > total_size THEN NoRegion("TextOffsetOutOfBounds")
        ELSE IF start + 2 > offset + total_size THEN NoRegion("InsufficientData")
        ELSE IF capacity <= 0 THEN NoRegion("NoCapacity")
        ELSE [ok |-> TRUE, err |-> "none", payload_start |-> payload_start,
              capacity |-> capacity,
              has_nul |-> (Len(current) > 0 /\ current[Len(current)] = 0)]

NoData(e) == [ok |-> FALSE, err |-> e, payload_start |-> 0, data |-> <<>>]

\* the listing tool's locator and reader: the pointer is read at offset+7,
\* high byte first; returns the payload bytes to the end of the resource
_extract_text_data(offset, total_size, store) ==
    LET hdr == ReadAt(store, offset + 7, 2)
        wide == listing_text_offset(hdr)
        text_offset == IF wide > total_size THEN hdr[2] ELSE wide
        start == offset + text_offset + 3
        payload_start == start + 2
        text_len == total_size - (payload_start - offset)
        data == ReadAt(store, payload_start, text_len)
    IN  IF Len(hdr) # 2 THEN NoData("ShortHeader")
        ELSE IF text_offset > total_size THEN NoData("TextOffsetOutOfBounds")
        ELSE IF start + 2 > offset + total_size THEN NoData("InsufficientData")
        ELSE IF Len(ReadAt(store, start, 2)) # 2 THEN NoData("ShortLength")
        ELSE IF text_len < 0 THEN NoData("NegativeLength")
        ELSE IF Len(data) # text_len THEN NoData("ShortPayload")
        ELSE [ok |-> TRUE, err |-> "none", payload_start |-> payload_start,
              data |-> data]

(* ------------------------------ text codecs --------------------------- *)
\* message[::-1]
Reverse(s) == [k \in 1..Len(s) |-> s[Len(s) + 1 - k]]

\* str.encode('cp1255') of one character (a code point): ASCII maps to itself,
\* the Hebrew letters U+05D0..U+05EA map to 0xE0..0xFA, and a character the
\* code page does not hold (such as U+00E0) cannot be encoded (-1)
cp1255_byte(c) ==
    IF c < 128 THEN c
    ELSE IF c >= 1488 /\ c <= 1514 THEN c - 1488 + 224
    ELSE -1

encodable(message) == \A k \in 1..Len(message) : cp1255_byte(message[k]) # -1

encode_cp1255(message) == [k \in 1..Len(message) |-> cp1255_byte(message[k])]

\* bytes.decode('latin-1'): byte b is code point b
decode_latin1(raw) == raw

\* raw.find(b"\x00") and the cut raw[:end]
cut_at_nul(raw) ==
    LET nuls == {k \in 1..Len(raw) : raw[k] = 0}
    IN  IF nuls = {} THEN raw
        ELSE ReadAt(raw, 0, (CHOOSE k \in nuls : \A m \in nuls : k <= m) - 1)

\* b" " * n
Spaces(n) == [k \in 1..n |-> 32]

(* ------------------------------ the patcher --------------------------- *)
Outcome(ok, err, store, span, region, new_bytes, buf) ==
    [ok |-> ok, err |-> err, store |-> store, off |-> span.off, size |-> span.size,
     payload_start |-> region.payload_start, capacity |-> region.capacity,
     has_nul |-> region.has_nul, new_bytes |-> new_bytes, buf |-> buf]

\* the content capacity with no byte reserved for the terminator
content_capacity_unreserved(capacity, has_nul) == capacity

\* "if has_nul and capacity > 0: content_cap = capacity - 1; else capacity"
content_capacity(capacity, has_nul) ==
    IF has_nul /\ capacity > 0 THEN capacity - 1 ELSE capacity

\* the capacity check off by one
too_long_inclusive(new_bytes, content_cap) == Len(new_bytes) >= content_cap

\* "if len(new_bytes) > content_cap": the message is rejected
too_long(new_bytes, content_cap) == Len(new_bytes) > content_cap

\* the buffer without the terminator appended
build_buffer_unterminated(new_bytes, capacity, has_nul) ==
    new_bytes \o Spaces(content_capacity(capacity, has_nul) - Len(new_bytes))

\* buf = new_bytes + b" " * pad_len, then + b"\x00" when has_nul
build_buffer(new_bytes, capacity, has_nul) ==
    LET pad_len == content_capacity(capacity, has_nul) - Len(new_bytes)
    IN  new_bytes \o Spaces(pad_len)
            \o (IF has_nul /\ capacity > 0 THEN <<0>> ELSE <<>>)

\* update_view_text with the dry-run return placed before the capacity check
update_view_text_dry_unchecked(index, message, data, store, dry_run) ==
    LET span == get_offset_and_size_with_fallback(index, data, Len(store))
        region == IF span.ok THEN compute_text_payload_region(span.off, span.size, store)
                  ELSE NoRegion(span.err)
        new_bytes == encode_cp1255(Reverse(message))
        content_cap == content_capacity(region.capacity, region.has_nul)
        buf == build_buffer(new_bytes, region.capacity, region.has_nul)
    IN  IF ~span.ok THEN Outcome(FALSE, span.err, store, span, region, <<>>, <<>>)
        ELSE IF ~region.ok THEN Outcome(FALSE, region.err, store, span, region, <<>>, <<>>)
        ELSE IF ~encodable(message)
             THEN Outcome(FALSE, "EncodeError", store, span, region, <<>>, <<>>)
        ELSE IF dry_run THEN Outcome(TRUE, "none", store, span, region, new_bytes, buf)
        ELSE IF too_long(new_bytes, content_cap)
             THEN Outcome(FALSE, "TextTooLong", store, span, region, new_bytes, <<>>)
        ELSE Outcome(TRUE, "none", WriteAt(store, region.payload_start, buf),
                     span, region, new_bytes, buf)

\* update_view_text writing the part of a too long message that fits
update_view_text_truncating(index, message, data, store, dry_run) ==
    LET span == get_offset_and_size_with_fallback(index, data, Len(store))
        region == IF span.ok THEN compute_text_payload_region(span.off, span.size, store)
                  ELSE NoRegion(span.err)
        new_bytes == encode_cp1255(Reverse(message))
        content_cap == content_capacity(region.capacity, region.has_nul)
        buf == build_buffer(new_bytes, region.capacity, region.has_nul)
    IN  IF ~span.ok THEN Outcome(FALSE, span.err, store, span, region, <<>>, <<>>)
        ELSE IF ~region.ok THEN Outcome(FALSE, region.err, store, span, region, <<>>, <<>>)
        ELSE IF ~encodable(message)
             THEN Outcome(FALSE, "EncodeError", store, span, region, <<>>, <<>>)
        ELSE IF too_long(new_bytes, content_cap)
             THEN Outcome(FALSE, "TextTooLong",
                          IF dry_run THEN store
                          ELSE WriteAt(store, region.payload_start,
                                       ReadAt(new_bytes, 0, content_cap)),
                          span, region, new_bytes, <<>>)
        ELSE IF dry_run THEN Outcome(TRUE, "none", store, span, region, new_bytes, buf)
        ELSE Outcome(TRUE, "none", WriteAt(store, region.payload_start, buf),
                     span, region, new_bytes, buf)

\* update_view_text(index, message, srcdir, dry_run) on directory `data` and
\* store `store`; .store is VOL.0 afterwards, .ok the value returned
update_view_text(index, message, data, store, dry_run) ==
    LET span == get_offset_and_size_with_fallback(index, data, Len(store))
        region == IF span.ok THEN compute_text_payload_region(span.off, span.size, store)
                  ELSE NoRegion(span.err)
        new_bytes == encode_cp1255(Reverse(message))
        content_cap == content_capacity(region.capacity, region.has_nul)
        buf == build_buffer(new_bytes, region.capacity, region.has_nul)
    IN  IF ~span.ok THEN Outcome(FALSE, span.err, store, span, region, <<>>, <<>>)
        ELSE IF ~region.ok THEN Outcome(FALSE, region.err, store, span, region, <<>>, <<>>)
        ELSE IF ~encodable(message)
             THEN Outcome(FALSE, "EncodeError", store, span, region, <<>>, <<>>)
        ELSE IF too_long(new_bytes, content_cap)
             THEN Outcome(FALSE, "TextTooLong", store, span, region, new_bytes, <<>>)
        ELSE IF dry_run THEN Outcome(TRUE, "none", store, span, region, new_bytes, buf)
        ELSE Outcome(TRUE, "none", WriteAt(store, region.payload_start, buf),
                     span, region, new_bytes, buf)

\* update_view_text in a source directory where VIEWDIR or VOL.0 may be
\* missing: the resolver raises FileNotFoundError, which is caught like every
\* other exception
update_view_text_at(have_dir, have_vol, index, message, data, store, dry_run) ==
    IF ~have_dir
        THEN Outcome(FALSE, "ViewdirNotFound", store, Fail("ViewdirNotFound"),
                     NoRegion("ViewdirNotFound"), <<>>, <<>>)
    ELSE IF ~have_vol
        THEN Outcome(FALSE, "VolNotFound", store, Fail("VolNotFound"),
                     NoRegion("VolNotFound"), <<>>, <<>>)
    ELSE update_view_text(index, message, data, store, dry_run)

(* ------------------------- the batch input reader --------------------- *)
\* str.lstrip(chars), str.rstrip(chars), str.strip(chars)
RECURSIVE lstrip(_, _)
lstrip(s, chars) ==
    IF s # <<>> /\ s[1] \in chars THEN lstrip(Tail(s), chars) ELSE s

RECURSIVE rstrip(_, _)
rstrip(s, chars) ==
    IF s # <<>> /\ s[Len(s)] \in chars THEN rstrip(SubSeq(s, 1, Len(s) - 1), chars)
    ELSE s

strip(s, chars) == rstrip(lstrip(s, chars), chars)

\* the characters strip() and lstrip() remove when given no argument
Whitespace == {9, 10, 11, 12, 13, 32}

\* the characters of "\r\n"
LineEnds == {13, 10}

\* str.isdigit(): not empty and digits only; besides '0'..'9' the superscript
\* two U+00B2 is a digit to isdigit()
isdigit(s) == s # <<>> /\ \A k \in 1..Len(s) : s[k] \in (48..57) \cup {178}

\* int(s) accepts s: decimal digits only (int("\u00b2") raises ValueError)
int_accepts(s) == s # <<>> /\ \A k \in 1..Len(s) : s[k] \in 48..57

\* int(s) of decimal digits
RECURSIVE int(_)
int(s) ==
    IF s = <<>> THEN 0
    ELSE int(SubSeq(s, 1, Len(s) - 1)) * 10 + (s[Len(s)] - 48)

Item(kind, idx, msg) == [kind |-> kind, idx |-> idx, msg |-> msg]

\* what iter_lines makes of one raw line: nothing ("blank"), an error item, a
\* request item (index, message), or a ValueError raised by int() ("raise")
parse_line(raw) ==
    LET line == strip(raw, LineEnds)
        bars == {k \in 1..Len(line) : line[k] = 124}
        bar == CHOOSE k \in bars : \A m \in bars : k <= m
        idx_str == strip(SubSeq(line, 1, bar - 1), Whitespace)
        msg == lstrip(SubSeq(line, bar + 1, Len(line)), Whitespace)
    IN  IF line = <<>> THEN Item("blank", -1, <<>>)
        ELSE IF bars = {} THEN Item("missing separator", -1, <<>>)
        ELSE IF ~isdigit(idx_str) THEN Item("non-numeric index", -1, <<>>)
        ELSE IF ~int_accepts(idx_str) THEN Item("raise", -1, <<>>)
        ELSE Item("request", int(idx_str), msg)

encodings_to_try == <<"utf-8", "windows-1255">>

\* the raw line, written in a file of the given encoding, decodes under
\* encodings_to_try[pass]: ASCII decodes under both; other characters decode
\* under the encoding the file was written in
decodes(raw, encoding, pass) ==
    IF \A k \in 1..Len(raw) : raw[k] < 128 THEN TRUE
    ELSE encodings_to_try[pass] = encoding

(* ---------------------------- the listing tool ------------------------ *)
\* the text list_all_view_texts prints after "<i>|" for index i: empty for an
\* absent entry and on any extraction error
listed_text(i, data, store) ==
    LET cur == entry(data, i)
        j == next_index(data, i)
        total_size == IF j # -1 THEN entry(data, j) - cur
                      ELSE Max(0, Len(store) - cur)
        got == _extract_text_data(cur, total_size, store)
    IN  IF cur = ABSENT THEN <<>>
        ELSE IF ~got.ok THEN <<>>
        ELSE decode_latin1(cut_at_nul(got.data))

\* str(n) of an integer n >= 0, as code points
RECURSIVE str_int(_)
str_int(n) ==
    IF n < 10 THEN <<48 + n>>
    ELSE str_int(n \div 10) \o <<48 + (n % 10)>>

\* what the loop "for i in range(start, end + 1)" prints from index i on:
\* "<i>|<text>" and a line feed for each index
RECURSIVE listing(_, _, _, _)
listing(data, store, i, end) ==
    IF i > end THEN <<>>
    ELSE str_int(i) \o <<124>> \o listed_text(i, data, store) \o <<10>>
             \o listing(data, store, i + 1, end)

\* list_all_view_texts(viewdir_path, vol_path, start, end): start and end are
\* <<>> (None) or <<n>>; .out is the text printed
list_all_view_texts(data, store, start, end) ==
    LET count == entry_count(data)
        s == IF start = <<>> THEN 0 ELSE start[1]
        e == IF end = <<>> THEN count - 1 ELSE end[1]
    IN  IF s < 0 \/ e < 0 \/ s >= count \/ e >= count
            THEN [ok |-> FALSE, err |-> "RangeOutOfBounds", out |-> <<>>]
        ELSE IF s > e THEN [ok |-> FALSE, err |-> "StartAfterEnd", out |-> <<>>]
        ELSE [ok |-> TRUE, err |-> "none", out |-> listing(data, store, s, e)]

(* ------------------------------- inputs ------------------------------- *)
Fill(c, n) == [k \in 1..n |-> c]

\* short messages: empty, NUL, space, 'A', U+00E0 (not in cp1255), alef, "A"+alef
Samples == {<<>>, <<0>>, <<32>>, <<65>>, <<224>>, <<1488>>, <<65, 1488>>}

\* the messages offered to update_view_text: the samples, and runs of 'A'
\* around the capacity of the first resource
Messages == Samples \cup {Fill(65, n) : n \in (MaxFill - 2)..MaxFill}

\* a VIEW resource record: 7 leading bytes, the tag byte 7, the pointer field
\* at bytes 8 and 9, then the body
Resource(tag, lo, hi, body) == <<1, 2, 3, 4, 5, 6, 7, tag, lo, hi>> \o body

\* n bytes of body, '.' throughout but for the last byte
Body(n, tail) == [k \in 1..n |-> IF k = n THEN tail ELSE 46]

\* VOL.0: a 20-byte resource with the given <<tag, byte 8, byte 9>> and last
\* byte, followed by an 11-byte resource
Store(h, tail) ==
    Resource(h[1], h[2], h[3], Body(10, tail)) \o Resource(0, 5, 0, <<46>>)

\* pointer 5 (text after the header); the same with a tag byte; a high byte
\* that sends the patcher to its fallback; pointer 3 (text inside the header)
Headers == {<<0, 5, 0>>, <<1, 5, 0>>, <<0, 5, 1>>, <<0, 3, 0>>}

\* pointers that leave no text region: the region would be empty, the length
\* field would cross the end of the resource, the pointer lies past the end
Broken == {<<0, 15, 0>>, <<0, 17, 0>>, <<0, 200, 100>>}

Tails == {0, 46}

Gone == <<255, 255, 255>>

Packed == <<0, 0, 0>> \o <<0, 0, 20>>
Sparse == <<0, 0, 0>> \o Gone \o <<0, 0, 20>>
PastEnd == <<0, 0, 0>> \o <<0, 0, 33>>
Unordered == <<0, 0, 20>> \o <<0, 0, 0>>
Single == <<0, 0, 0>>
\* a third entry that points at the first resource again
Overlapping == <<0, 0, 0>> \o <<0, 0, 20>> \o <<0, 0, 0>>

\* VOL.0 holding one 40-byte resource whose pointer is 3
LongStore == Resource(0, 3, 0, Body(30, 0))

\* VOL.0 whose last byte is 0x00: the second resource's text is one NUL
NulEnded == Resource(0, 5, 0, Body(10, 46)) \o Resource(0, 5, 0, <<0>>)

\* pointer 7: the two bytes before the text lie after the pointer field
Roomy == <<0, 7, 0>>

\* the <<VIEWDIR, VOL.0>> pairs the patcher is started on: every header under
\* the packed directory, and the plain header under a sparse directory, under
\* one whose next offset lies past the end of the store, and under one whose
\* offsets are out of order; the long resource alone; the broken pointers;
\* the directory whose third entry points at the first resource again; a
\* store ending in 0x00 under the directory that reaches past its end; and a
\* pointer that leaves room between the pointer field and the text
Archives ==
    {<<Packed, Store(h, t)>> : h \in Headers, t \in Tails}
        \cup {<<d, Store(<<0, 5, 0>>, t)>> : d \in {Sparse, PastEnd, Unordered}, t \in Tails}
        \cup {<<Single, LongStore>>}
        \cup {<<Packed, Store(h, 46)>> : h \in Broken}
        \cup {<<Overlapping, Store(<<0, 5, 0>>, 0)>>}
        \cup {<<PastEnd, NulEnded>>}
        \cup {<<Packed, Store(Roomy, 0)>>}

Indices == 0..2

Idle ==
    [op |-> "none", index |-> 0, message |-> <<>>, dry_run |-> FALSE,
     ok |-> FALSE, err |-> "none", off |-> 0, size |-> 0, payload_start |-> 0,
     capacity |-> 0, has_nul |-> FALSE, new_bytes |-> <<>>, buf |-> <<>>,
     lines |-> <<>>, start |-> <<>>, end |-> <<>>, out |-> <<>>]

\* no batch is running
NoBatch == [status |-> "none"]

(* --------------------------- the patch machine ------------------------ *)
Init ==
    /\ \E a \in Archives : viewdir = a[1] /\ vol = a[2]
    /\ vol0 = vol
    /\ prev = vol
    /\ last = Idle
    /\ batch = NoBatch

\* the effect of one call of update_view_text whose outcome is r
Called(index, message, dry_run, r) ==
    /\ vol' = r.store
    /\ prev' = vol
    /\ last' = [Idle EXCEPT !.op = "update", !.index = index,
                            !.message = message, !.dry_run = dry_run,
                            !.ok = r.ok, !.err = r.err,
                            !.off = r.off, !.size = r.size,
                            !.payload_start = r.payload_start,
                            !.capacity = r.capacity, !.has_nul = r.has_nul,
                            !.new_bytes = r.new_bytes, !.buf = r.buf]
    /\ UNCHANGED <<viewdir, vol0>>

\* one call update_view_text(index, message, srcdir, dry_run)
Update(index, message, dry_run) ==
    \E r \in {update_view_text(index, message, viewdir, vol, dry_run)} :
        Called(index, message, dry_run, r) /\ UNCHANGED batch

Next == \E index \in Indices, message \in Messages, dry_run \in BOOLEAN :
            Update(index, message, dry_run)

Spec == Init /\ [][Next]_vars

(* ---------------------------- the batch driver ------------------------ *)
\* lines of a batch input file: "0 | AB", "1|" and alef, "2|B", "A" (no
\* separator), "x|A" (no number), an empty line, and superscript two "|A"
RawLines ==
    {<<48, 32, 124, 32, 65, 66>>, <<49, 124, 1488>>, <<50, 124, 66>>, <<65>>,
     <<120, 124, 65>>, <<>>, <<178, 124, 65>>}

\* the input files of exactly n lines, each line ended by a line feed
RECURSIVE InputsOf(_)
InputsOf(n) ==
    IF n = 0 THEN {<<>>}
    ELSE {f \o <<l \o <<10>>>> : f \in InputsOf(n - 1), l \in RawLines}

Inputs == UNION {InputsOf(n) : n \in 0..MaxLines}

PackedArchive == <<Packed, Store(<<0, 5, 0>>, 0)>>

\* one run of the batch driver: the archive in srcdir, the input file and the
\* encoding it was written in, the lines the reader decodes at a time, the
\* options --start-index, --end-index (<<>> when not given) and --dry-run,
\* and which of srcdir, VIEWDIR, VOL.0 and the input file exist
Run(archive, file, encoding, chunk, start, end, dry_run, missing) ==
    [archive |-> archive, file |-> file, encoding |-> encoding, chunk |-> chunk,
     start_index |-> start, end_index |-> end, dry_run |-> dry_run,
     have_srcdir |-> missing # "srcdir",
     have_dir |-> missing \notin {"srcdir", "VIEWDIR"},
     have_vol |-> missing \notin {"srcdir", "VOL.0"},
     have_input |-> missing # "input"]

\* the runs started: plain runs on three archives; inputs written in
\* windows-1255 or in neither encoding, decoded a line or a file at a time;
\* a filtered run and a dry run; runs with something missing
Runs ==
    {Run(a, f, "utf-8", 1, <<>>, <<>>, FALSE, "none") :
        a \in {PackedArchive, <<Overlapping, Store(<<0, 5, 0>>, 0)>>,
               <<PastEnd, Store(<<0, 5, 0>>, 0)>>},
        f \in Inputs}
    \cup {Run(PackedArchive, f, e, c, <<>>, <<>>, FALSE, "none") :
            f \in Inputs, e \in {"windows-1255", "other"}, c \in {1, MaxLines}}
    \cup {Run(PackedArchive, f, "utf-8", 1, <<1>>, <<1>>, FALSE, "none") : f \in Inputs}
    \cup {Run(PackedArchive, f, "utf-8", 1, <<>>, <<>>, TRUE, "none") : f \in Inputs}
    \cup {Run(PackedArchive, f, "utf-8", 1, <<>>, <<>>, FALSE, m) :
            f \in Inputs, m \in {"VIEWDIR", "VOL.0"}}
    \cup {Run(PackedArchive, <<>>, "utf-8", 1, <<>>, <<>>, FALSE, m) :
            m \in {"srcdir", "input"}}

InitBatch ==
    /\ \E run \in Runs :
          /\ viewdir = IF run.have_dir THEN run.archive[1] ELSE <<>>
          /\ vol = IF run.have_vol THEN run.archive[2] ELSE <<>>
          /\ batch = [status |-> "ready", file |-> run.file,
                      encoding |-> run.encoding, chunk |-> run.chunk,
                      start_index |-> run.start_index,
                      end_index |-> run.end_index, dry_run |-> run.dry_run,
                      have_srcdir |-> run.have_srcdir, have_dir |-> run.have_dir,
                      have_vol |-> run.have_vol, have_input |-> run.have_input,
                      pass |-> 1, pos |-> 0, total |-> 0, ok |-> 0,
                      skipped |-> 0, log |-> <<>>,
                      applied |-> [i \in Indices |-> <<>>]]
    /\ vol0 = vol
    /\ prev = vol
    /\ last = Idle

\* main up to the loop: SystemExit when srcdir or the input file is missing
BatchStart ==
    /\ batch.status = "ready"
    /\ batch' = [batch EXCEPT !.status =
                    IF batch.have_srcdir /\ batch.have_input THEN "running"
                    ELSE "exit"]
    /\ UNCHANGED <<viewdir, vol, vol0, prev, last>>

\* the reader is at the start of a chunk of lines that does not decode
ChunkFails ==
    /\ batch.pos < Len(batch.file)
    /\ batch.pos % batch.chunk = 0
    /\ \E k \in (batch.pos + 1)..Min(batch.pos + batch.chunk, Len(batch.file)) :
          ~decodes(batch.file[k], batch.encoding, batch.pass)

\* UnicodeDecodeError in iter_lines: the file is read again from its first
\* line with the next encoding; after the last encoding the final raise
\* (itself a TypeError) ends the run
BatchDecodeError ==
    /\ batch.status = "running" /\ ChunkFails
    /\ batch' = IF batch.pass < Len(encodings_to_try)
                    THEN [batch EXCEPT !.pass = @ + 1, !.pos = 0]
                    ELSE [batch EXCEPT !.status = "crashed"]
    /\ UNCHANGED <<viewdir, vol, vol0, prev, last>>

\* the input is exhausted: "Done. processed=.., ok=.., skipped=.."
BatchFinish ==
    /\ batch.status = "running" /\ batch.pos = Len(batch.file)
    /\ batch' = [batch EXCEPT !.status = "done"]
    /\ UNCHANGED <<viewdir, vol, vol0, prev, last>>

\* the reader has a next line
Readable ==
    batch.status = "running" /\ batch.pos < Len(batch.file) /\ ~ChunkFails

\* the item iter_lines makes of the next line
NextItem == parse_line(batch.file[batch.pos + 1])

\* an empty line: iter_lines yields nothing for it
BatchBlank ==
    /\ Readable /\ NextItem.kind = "blank"
    /\ batch' = [batch EXCEPT !.pos = @ + 1]
    /\ UNCHANGED <<viewdir, vol, vol0, prev, last>>

\* a line without separator or without numeric index: WARN, skipped += 1
BatchWarn ==
    /\ Readable /\ NextItem.kind \in {"missing separator", "non-numeric index"}
    /\ batch' = [batch EXCEPT !.pos = @ + 1, !.skipped = @ + 1,
                              !.log = Append(@, [lineno |-> batch.pos + 1,
                                                 kind |-> "warn", idx |-> -1,
                                                 ok |-> FALSE])]
    /\ UNCHANGED <<viewdir, vol, vol0, prev, last>>

\* an index isdigit() accepts and int() refuses: the ValueError leaves
\* iter_lines and main uncaught
BatchRaise ==
    /\ Readable /\ NextItem.kind = "raise"
    /\ batch' = [batch EXCEPT !.status = "crashed"]
    /\ UNCHANGED <<viewdir, vol, vol0, prev, last>>

\* the index passes --start-index and --end-index
in_filter(idx) ==
    /\ IF batch.start_index = <<>> THEN TRUE ELSE idx >= batch.start_index[1]
    /\ IF batch.end_index = <<>> THEN TRUE ELSE idx <= batch.end_index[1]

\* a request outside the filter: continue
BatchFiltered ==
    /\ Readable /\ NextItem.kind = "request" /\ ~in_filter(NextItem.idx)
    /\ batch' = [batch EXCEPT !.pos = @ + 1]
    /\ UNCHANGED <<viewdir, vol, vol0, prev, last>>

\* a request inside the filter: total += 1, update_view_text(idx, msg[::-1],
\* srcdir, dry_run), ok += 1 on success; applied[i] remembers where the last
\* update of i wrote and the text it wrote, when it was a successful real one
BatchApply ==
    /\ Readable /\ NextItem.kind = "request" /\ in_filter(NextItem.idx)
    /\ \E r \in {update_view_text_at(batch.have_dir, batch.have_vol,
                                      NextItem.idx, Reverse(NextItem.msg),
                                      viewdir, vol, batch.dry_run)} :
          /\ Called(NextItem.idx, Reverse(NextItem.msg), batch.dry_run, r)
          /\ batch' = [batch EXCEPT
                !.pos = @ + 1, !.total = @ + 1,
                !.ok = IF r.ok THEN @ + 1 ELSE @,
                !.log = Append(@, [lineno |-> batch.pos + 1, kind |-> "update",
                                   idx |-> NextItem.idx, ok |-> r.ok]),
                !.applied = [i \in Indices |->
                               IF i # NextItem.idx THEN @[i]
                               ELSE IF r.ok /\ ~batch.dry_run
                                    THEN <<r.payload_start, r.new_bytes>>
                               ELSE <<>>]]

NextBatch ==
    \/ BatchStart
    \/ BatchDecodeError
    \/ BatchFinish
    \/ BatchBlank
    \/ BatchWarn
    \/ BatchRaise
    \/ BatchFiltered
    \/ BatchApply

SpecBatch == InitBatch /\ [][NextBatch]_vars

(* ====================== properties of the patch machine ================ *)
Wrote == last.op = "update" /\ last.ok /\ ~last.dry_run

\* C1: after any sequence of updates (writes, rejections, dry runs) the store
\* is as long as it was before the first of them
C1_LengthPreserved == Len(vol) = Len(vol0)

\* the store bytes at offsets lo .. hi-1 are as they were before the last update
Kept(lo, hi) ==
    \A p \in lo..(hi - 1) : p < Len(prev) => (p < Len(vol) /\ vol[p + 1] = prev[p + 1])

\* C2: a successful write changes only bytes of the located text region: the
\* bytes before payload_start, the resource's header bytes 0..9 among them,
\* and the bytes from offset + size on are as before
C2_FrameWithHeader ==
    Wrote =>
        /\ Kept(0, last.payload_start)
        /\ Kept(last.off, last.off + 10)
        /\ Kept(last.off + last.size, Len(prev))

\* trailing pad (0x20) stripped
RECURSIVE StripPad(_)
StripPad(t) ==
    IF Len(t) > 0 /\ t[Len(t)] = 32 THEN StripPad(ReadAt(t, 0, Len(t) - 1)) ELSE t

NulFree(t) == \A k \in 1..Len(t) : t[k] # 0

\* C3: round trip: after a successful write of the bytes T to index i the
\* listing of index i, its trailing pad stripped, is T (for T that holds no
\* NUL, compared up to trailing spaces of T itself)
C3_RoundTrip ==
    (Wrote /\ NulFree(last.new_bytes)) =>
        StripPad(listed_text(last.index, viewdir, vol)) = StripPad(last.new_bytes)

\* C4: the same (index, text) applied twice in a row: the second application
\* leaves the store as the first left it
C4_Idempotent ==
    [][(/\ last.op = "update" /\ ~last.dry_run
        /\ last'.op = "update" /\ ~last'.dry_run
        /\ last'.index = last.index /\ last'.message = last.message)
       => vol' = vol]_vars

\* the content capacity as the claims state it
ClaimedContentCapacity(capacity, has_nul) == IF has_nul THEN capacity - 1 ELSE capacity

\* the last update reached the capacity check: the region was located and the
\* message encoded
Checked == last.op = "update" /\ last.err \in {"none", "TextTooLong"}

\* C5: for a located region the write succeeds exactly when the replacement is
\* no longer than the content capacity; a longer one fails with TextTooLong
\* and nothing of it is written
C5_SucceedsIffFits ==
    Checked =>
        /\ last.ok <=> Len(last.new_bytes)
                          <= ClaimedContentCapacity(last.capacity, last.has_nul)
        /\ ~last.ok => (last.err = "TextTooLong" /\ vol = prev)

C5_Witness ==
    /\ Wrote /\ ~last.has_nul /\ last.capacity = 10 /\ Len(last.new_bytes) = 10
    /\ ReadAt(vol, last.payload_start, 10) = last.new_bytes

\* C6: after a successful write the region holds the replacement, then spaces
\* up to the content capacity, then one NUL exactly when the region ended in
\* one; the buffer is as long as the capacity; with capacity 10 and a
\* terminator 10 bytes are rejected
C6_RegionContents ==
    /\ Wrote =>
        LET cc == ClaimedContentCapacity(last.capacity, last.has_nul)
        IN  /\ Len(last.buf) = last.capacity
            /\ ReadAt(vol, last.payload_start, last.capacity)
                 = last.new_bytes \o [k \in 1..(cc - Len(last.new_bytes)) |-> 32]
                     \o (IF last.has_nul THEN <<0>> ELSE <<>>)
    /\ (Checked /\ last.has_nul /\ last.capacity = 10 /\ Len(last.new_bytes) = 10)
         => ~last.ok

\* capacity 10 with a terminator takes 9 bytes, no padding, and keeps the NUL
C6_Witness ==
    /\ Wrote /\ last.has_nul /\ last.capacity = 10 /\ Len(last.new_bytes) = 9
    /\ ReadAt(vol, last.payload_start, 10) = last.new_bytes \o <<0>>

\* the text region of index i is located in store s and its last byte, at
\* offset + size - 1, is NUL
Terminated(s, i) ==
    LET span == get_offset_and_size_with_fallback(i, viewdir, Len(s))
    IN  /\ span.ok
        /\ compute_text_payload_region(span.off, span.size, s).ok
        /\ span.off + span.size <= Len(s)
        /\ s[span.off + span.size] = 0

\* the byte at the place where the region of index i ended in store s is NUL
\* in store t
StillTerminated(s, t, i) ==
    LET span == get_offset_and_size_with_fallback(i, viewdir, Len(s))
    IN  span.off + span.size <= Len(t) /\ t[span.off + span.size] = 0

\* C7: a region that ends in NUL still ends in NUL after an update of its
\* index, successful or not; so it does after any sequence of them
C7_TerminatorKept ==
    [][\A i \in Indices :
          (Terminated(vol, i) /\ last'.op = "update" /\ last'.index = i)
             => StillTerminated(vol, vol', i)]_vars

C7_Witness ==
    /\ Wrote /\ last.has_nul /\ Len(last.new_bytes) > 0
    /\ Terminated(prev, last.index) /\ StillTerminated(prev, vol, last.index)

\* C13: a dry run leaves every byte of VOL.0 as it was, and returns what the
\* real update of the same index with the same message returns on that VOL.0
C13_DryRunFaithful ==
    (last.op = "update" /\ last.dry_run) =>
        /\ vol = prev
        /\ last.ok = update_view_text(last.index, last.message, viewdir,
                                      prev, FALSE).ok

\* a successful dry run of an update that would have changed VOL.0
C13_Witness ==
    /\ last.op = "update" /\ last.dry_run /\ last.ok
    /\ update_view_text(last.index, last.message, viewdir, prev, FALSE).store # prev

\* the failures of the resolver, the locator and the capacity check
Refusals ==
    {"IndexOutOfRange", "AbsentResource", "InvalidSpan", "TextOffsetOutOfBounds",
     "InsufficientData", "NoCapacity", "TextTooLong"}

\* C14: an update that fails in the resolver, the locator or the capacity
\* check leaves VOL.0 byte for byte as it was before the update
C14_FailureKeepsStore ==
    (last.op = "update" /\ ~last.ok /\ last.err \in Refusals) => vol = prev

\* a real update refused by the locator for want of capacity, after an
\* earlier update has changed VOL.0
C14_Witness ==
    /\ last.op = "update" /\ ~last.dry_run /\ ~last.ok
    /\ last.err = "NoCapacity"
    /\ vol # vol0

\* the last update resolved its span and read the two pointer bytes
ReadPointer ==
    /\ last.op = "update"
    /\ last.err \notin {"IndexOutOfRange", "AbsentResource", "InvalidSpan",
                        "ShortHeader"}

\* C20: the locator takes as primary text_offset the big-endian value of the
\* bytes at offset+8 and offset+9, store[offset+8] * 256 + store[offset+9]
C20_PointerBigEndian ==
    ReadPointer =>
        patcher_text_offset(ReadAt(prev, last.off + 8, 2))
            = prev[last.off + 8 + 1] * 256 + prev[last.off + 9 + 1]

\* the last update located its text region
Located ==
    last.op = "update" /\ last.err \in {"none", "TextTooLong", "EncodeError"}

\* the pointer bytes the last update read, and the 16-bit value it made of them
PointerBytes == ReadAt(prev, last.off + 8, 2)
Primary == patcher_text_offset(PointerBytes)

\* C21: the 16-bit text_offset is used when it is <= span.size, else its
\* low-order byte alone; the locator fails with TextOffsetOutOfBounds exactly
\* when both exceed span.size
C21_TwoTierPointer ==
    ReadPointer =>
        /\ last.err = "TextOffsetOutOfBounds"
              <=> (Primary > last.size /\ Primary % 256 > last.size)
        /\ Located =>
              last.payload_start
                  = last.off + 5 + (IF Primary <= last.size THEN Primary
                                    ELSE Primary % 256)

\* the text_offset the locator settles on
ChosenOffset == IF Primary > last.size THEN PointerBytes[2] ELSE Primary

\* C22: a located region lies inside its span: payload_start = offset +
\* text_offset + 5, capacity = size - (payload_start - offset) >= 1, and the
\* region ends where the span ends; the locator fails with InsufficientData
\* when block_start + 2 > offset + size and with NoCapacity when no byte is
\* left
C22_RegionInsideSpan ==
    /\ Located =>
          /\ last.payload_start = last.off + ChosenOffset + 5
          /\ last.payload_start > last.off
          /\ last.capacity = last.size - (last.payload_start - last.off)
          /\ last.capacity >= 1
          /\ last.capacity <= last.size - 5
          /\ last.payload_start + last.capacity = last.off + last.size
    /\ (ReadPointer /\ last.err # "TextOffsetOutOfBounds") =>
          /\ last.err = "InsufficientData"
                <=> (last.off + ChosenOffset + 3) + 2 > last.off + last.size
          /\ last.err = "NoCapacity"
                <=> last.size - (ChosenOffset + 5) = 0

\* a write into the second resource, whose region is its last byte
C22_Witness ==
    /\ Wrote /\ last.off = 20 /\ last.size = 11
    /\ last.payload_start = 30 /\ last.capacity = 1

\* the store with the two bytes at position pos (counted from 0) replaced
WithPrefix(store, pos, pair) ==
    [k \in 1..Len(store) |-> IF k = pos + 1 THEN pair[1]
                             ELSE IF k = pos + 2 THEN pair[2]
                             ELSE store[k]]

\* values for the 2-byte length field at block_start
Prefixes == {<<0, 0>>, <<9, 0>>, <<255, 255>>}

\* the call r found the region and gave the result the last update did
SameOutcome(r) ==
    /\ r.ok = last.ok /\ r.err = last.err
    /\ r.payload_start = last.payload_start /\ r.capacity = last.capacity
    /\ r.has_nul = last.has_nul /\ r.buf = last.buf

\* the last update repeated on a store that differs in the length field only
WithLength(pair) ==
    update_view_text(last.index, last.message, viewdir,
                     WithPrefix(prev, last.payload_start - 2, pair),
                     last.dry_run)

\* C23: the region and the outcome of a write do not depend on the 2-byte
\* length field at block_start = payload_start - 2: a store that differs in
\* those two bytes only gives the same region and the same result
C23_PrefixIgnored ==
    Located => \A pair \in Prefixes : SameOutcome(WithLength(pair))

\* the same, for a length field that lies after the pointer field
PrefixIgnoredWhenApart ==
    (Located /\ last.payload_start - 2 >= last.off + 10)
        => \A pair \in Prefixes : SameOutcome(WithLength(pair))

\* C24: has_trailing_terminator is true exactly when the store byte at
\* offset + size - 1 is 0x00, also for a span that ends past the end of the
\* store (where there is no such byte)
C24_TerminatorIsLastByte ==
    Located =>
        (last.has_nul <=> /\ last.off + last.size <= Len(prev)
                          /\ prev[last.off + last.size] = 0)

\* C25: where both locators succeed on the span of the last update they give
\* the same payload_start and the same number of bytes
C25_LocatorsAgree ==
    Located =>
        LET r == _extract_text_data(last.off, last.size, prev)
        IN  r.ok => /\ r.payload_start = last.payload_start
                    /\ Len(r.data) = last.capacity

\* the index of the last update located again in the store as it is now
Relocated == update_view_text(last.index, <<>>, viewdir, vol, TRUE)

\* C26: after a successful write the same index is located where it was, and
\* the pointer bytes at offset + 8 and offset + 9 are the ones read before
C26_RegionStable ==
    Wrote =>
        /\ Relocated.payload_start = last.payload_start
        /\ Relocated.capacity = last.capacity
        /\ ReadAt(vol, last.off + 8, 2) = ReadAt(prev, last.off + 8, 2)

\* C27: a region whose last byte is not 0x00 has no trailing terminator after
\* any successful write either, and its content capacity stays what it was
C27_ContentCapacityStable ==
    (Wrote /\ ~last.has_nul) =>
        /\ ~Relocated.has_nul
        /\ content_capacity(Relocated.capacity, Relocated.has_nul)
              = content_capacity(last.capacity, last.has_nul)

\* the same for the second resource alone, whose pointer field is never written
SecondResourceStable ==
    (Wrote /\ ~last.has_nul /\ last.off = 20 /\ last.payload_start = 30) =>
        ~Relocated.has_nul

(* ========================= the read-only tools ======================== *)
\* directory entries: offsets 0x10, 0x40 and 0x100, and the ABSENT sentinel
EntryBytes == {<<0, 0, 16>>, <<0, 0, 64>>, <<0, 1, 0>>, Gone}

RECURSIVE Tables(_)
\* the tables of exactly n entries
Tables(n) ==
    IF n = 0 THEN {<<>>}
    ELSE {t \o e : t \in Tables(n - 1), e \in EntryBytes}

\* VIEWDIR files of up to MaxEntries entries, with and without two stray
\* bytes after the last whole entry
Tabled ==
    {t \o stray : t \in UNION {Tables(n) : n \in 0..MaxEntries},
                  stray \in {<<>>, <<0, 0>>}}

\* VOL.0 of 0x40 and of 0x60 bytes
Blank(n) == [k \in 1..n |-> 0]
Blanks == {Blank(64), Blank(96)}

Asked == -1..MaxEntries

\* VOL.0 whose first text is "A", a line feed, "B"
Wrapped ==
    Resource(0, 5, 0, <<65, 10, 66, 0, 46, 46, 46, 46, 46, 46>>)
        \o Resource(0, 5, 0, <<46>>)

\* the range arguments --start and --end: not given, below the table, the
\* first two indices, or past the longest table
Ranges == {<<>>} \cup {<<n>> : n \in {-1, 0, 1, MaxEntries}}

InitRead ==
    /\ \/ viewdir \in Tabled /\ vol \in Blanks
       \/ \E a \in Archives \cup {<<Packed, Wrapped>>} :
             viewdir = a[1] /\ vol = a[2]
    /\ vol0 = vol
    /\ prev = vol
    /\ last = Idle
    /\ batch = NoBatch

\* the result r of resolver `op` on `index` is what was last seen
Resolved(op, index, r) ==
    /\ last' = [Idle EXCEPT !.op = op, !.index = index, !.ok = r.ok,
                            !.err = r.err, !.off = r.off, !.size = r.size]
    /\ UNCHANGED <<viewdir, vol, vol0, prev, batch>>

ResolvePatcher(index) ==
    Resolved("resolve_patcher", index,
             get_offset_and_size_with_fallback(index, viewdir, Len(vol)))

ResolveListing(index) ==
    Resolved("resolve_listing", index, get_view_offset_and_size(index, viewdir))

ResolveListingFallback(index) ==
    Resolved("resolve_listing_fallback", index,
             get_view_offset_and_size_with_fallback(index, viewdir, Len(vol)))

\* the listing tool run with no index: one line "<i>:<value>" per entry
DumpEntries ==
    /\ last' = [Idle EXCEPT !.op = "dump_entries", !.ok = TRUE,
                  !.lines = [k \in 1..entry_count(viewdir) |->
                                <<k - 1, entry(viewdir, k - 1)>>]]
    /\ UNCHANGED <<viewdir, vol, vol0, prev, batch>>

\* the listing tool run with --list-texts --start start --end end
ListTexts(start, end) ==
    \E r \in {list_all_view_texts(viewdir, vol, start, end)} :
        /\ last' = [Idle EXCEPT !.op = "list", !.start = start, !.end = end,
                                !.ok = r.ok, !.err = r.err, !.out = r.out]
        /\ UNCHANGED <<viewdir, vol, vol0, prev, batch>>

NextRead ==
    \/ \E start \in Ranges, end \in Ranges : ListTexts(start, end)
    \/ \E index \in Asked :
        \/ ResolvePatcher(index)
        \/ ResolveListing(index)
        \/ ResolveListingFallback(index)
    \/ DumpEntries

SpecRead == InitRead /\ [][NextRead]_vars

\* index i holds a present entry
Present(i) == i >= 0 /\ i < entry_count(viewdir) /\ entry(viewdir, i) # ABSENT

\* C8: for a present entry followed by a later present entry, the span a
\* resolver returns is the entry's offset and the distance to the next present
\* entry's offset, and that size is positive
C8_NextPresentSize ==
    (/\ last.op \in {"resolve_patcher", "resolve_listing"}
     /\ last.ok
     /\ next_index(viewdir, last.index) # -1)
    => /\ last.off = entry(viewdir, last.index)
       /\ last.size = entry(viewdir, next_index(viewdir, last.index))
                        - entry(viewdir, last.index)
       /\ last.size > 0

\* C9: for the last present entry the patcher's resolver returns the entry's
\* offset and size = store length - offset; it returns exactly when the
\* offset lies inside the store
C9_EndOfStoreSize ==
    (/\ last.op = "resolve_patcher"
     /\ Present(last.index)
     /\ next_index(viewdir, last.index) = -1)
    => /\ last.ok <=> entry(viewdir, last.index) < Len(vol)
       /\ last.ok => /\ last.off = entry(viewdir, last.index)
                     /\ last.size = Len(vol) - entry(viewdir, last.index)

\* directory [0x10, ABSENT, 0x40], store of 0x60 bytes: resolve(2) = (0x40, 0x20)
C9_Witness ==
    /\ viewdir = <<0, 0, 16>> \o Gone \o <<0, 0, 64>>
    /\ Len(vol) = 96
    /\ last.op = "resolve_patcher" /\ last.index = 2
    /\ last.ok /\ last.off = 64 /\ last.size = 32

\* C10: a span returned by a resolver with fallback, the patcher's or the
\* listing tool's, has a positive size
C10_PositiveSize ==
    (last.op \in {"resolve_patcher", "resolve_listing_fallback"} /\ last.ok)
        => last.size > 0

\* the resolver calls
Resolving == last.op \in {"resolve_patcher", "resolve_listing",
                          "resolve_listing_fallback"}

\* C11: a resolver asked for an index below 0 or at or above entry_count fails
\* with IndexOutOfRange, and asked for an entry that reads 0xFFFFFF fails with
\* AbsentResource; either way it returns no span and VOL.0 is as it was
C11_RejectsBadIndex ==
    Resolving =>
        /\ (last.index < 0 \/ last.index >= Len(viewdir) \div 3)
              => ~last.ok /\ last.err = "IndexOutOfRange"
        /\ (/\ last.index >= 0 /\ last.index < Len(viewdir) \div 3
            /\ ReadAt(viewdir, 3 * last.index, 3) = <<255, 255, 255>>)
              => ~last.ok /\ last.err = "AbsentResource"
        /\ ~last.ok => last.off = 0 /\ last.size = 0
        /\ vol = vol0

\* directory [0x10, ABSENT, 0x40]: the listing tool's resolver with fallback
\* refuses index 1
C11_Witness ==
    /\ viewdir = <<0, 0, 16>> \o Gone \o <<0, 0, 64>>
    /\ last.op = "resolve_listing_fallback" /\ last.index = 1
    /\ ~last.ok /\ last.err = "AbsentResource"

\* C12: the table has floor(len / 3) entries, entry i is
\* b[3i]*65536 + b[3i+1]*256 + b[3i+2] and lies in 0..0xFFFFFF, and bytes after
\* the last whole entry form no entry: seen in the dump of all entries and in
\* the offset a resolver returns
C12_BigEndianEntries ==
    /\ last.op = "dump_entries" =>
          /\ 3 * Len(last.lines) <= Len(viewdir)
          /\ Len(viewdir) < 3 * Len(last.lines) + 3
          /\ \A k \in 1..Len(last.lines) :
                /\ last.lines[k][1] = k - 1
                /\ last.lines[k][2] = viewdir[3 * k - 2] * 65536
                                        + viewdir[3 * k - 1] * 256 + viewdir[3 * k]
                /\ last.lines[k][2] >= 0 /\ last.lines[k][2] <= 16777215
    /\ (Resolving /\ last.ok) =>
          last.off = viewdir[3 * last.index + 1] * 65536
                       + viewdir[3 * last.index + 2] * 256
                       + viewdir[3 * last.index + 3]

\* the dump of [0x10, 0x100, ABSENT] followed by two stray bytes
C12_Witness ==
    /\ viewdir = <<0, 0, 16>> \o <<0, 1, 0>> \o Gone \o <<0, 0>>
    /\ last.op = "dump_entries"
    /\ last.lines = <<<<0, 16>>, <<1, 256>>, <<2, 16777215>>>>

\* the lines of a printed text: the runs of characters each ended by a line
\* feed
RECURSIVE SplitLines(_)
SplitLines(out) ==
    IF out = <<>> THEN <<>>
    ELSE LET feeds == {k \in 1..Len(out) : out[k] = 10}
             k == IF feeds = {} THEN Len(out) + 1
                  ELSE CHOOSE f \in feeds : \A g \in feeds : f <= g
         IN  <<ReadAt(out, 0, k - 1)>> \o SplitLines(ReadAt(out, k, Len(out) - k))

\* the bytes of raw before its first NUL, all of raw when it has none
UpToNul(raw) ==
    ReadAt(raw, 0, Cardinality({k \in 1..Len(raw) :
                                   \A m \in 1..k : raw[m] # 0}))

\* the text the listing owes index i: none for an absent entry or a failed
\* extraction, else the payload up to its first NUL
OwedText(i) ==
    LET span == get_view_offset_and_size_with_fallback(i, viewdir, Len(vol))
        got == IF span.ok THEN _extract_text_data(span.off, span.size, vol)
               ELSE NoData(span.err)
    IN  IF got.ok THEN UpToNul(got.data) ELSE <<>>

\* the first and last index of the last listing
ListedFrom == IF last.start = <<>> THEN 0 ELSE last.start[1]
ListedTo == IF last.end = <<>> THEN Len(viewdir) \div 3 - 1 ELSE last.end[1]

\* the last operation listed a valid range
ListedRange ==
    /\ last.op = "list"
    /\ 0 <= ListedFrom /\ ListedFrom <= ListedTo
    /\ ListedTo < Len(viewdir) \div 3

\* C19: for a valid range the listing prints exactly one line per index of
\* the range, in ascending order, line for index i being "<i>|" followed by
\* the text owed to i (empty for an absent entry or a failed extraction)
C19_OneLinePerIndex ==
    ListedRange =>
        /\ last.ok
        /\ Len(SplitLines(last.out)) = ListedTo - ListedFrom + 1
        /\ \A k \in 1..(ListedTo - ListedFrom + 1) :
              SplitLines(last.out)[k]
                  = str_int(ListedFrom + k - 1) \o <<124>>
                        \o OwedText(ListedFrom + k - 1)

\* the same of the records of the listing, each "<i>|<text>" and a line feed,
\* whatever the text holds
RecordPerIndex ==
    ListedRange =>
        /\ last.ok
        /\ last.out = listing(viewdir, vol, ListedFrom, ListedTo)
        /\ \A i \in ListedFrom..ListedTo : listed_text(i, viewdir, vol) = OwedText(i)

(* ======================= properties of the batch driver ================ *)
\* the part of a raw line before its first '|', spaces around it aside; the
\* whole line when it has no '|'
IndexPart(raw) ==
    LET bars == {k \in 1..Len(raw) : raw[k] = 124}
    IN  IF bars = {} THEN raw
        ELSE strip(SubSeq(raw, 1, (CHOOSE k \in bars : \A m \in bars : k <= m) - 1),
                   Whitespace)

\* a well-formed request line: a '|' in it and a decimal number before it
WellFormed(raw) ==
    /\ \E k \in 1..Len(raw) : raw[k] = 124
    /\ IndexPart(raw) # <<>>
    /\ \A k \in 1..Len(IndexPart(raw)) : IndexPart(raw)[k] \in 48..57

\* a malformed line: not empty and not well-formed
Malformed(raw) == strip(raw, LineEnds) # <<>> /\ ~WellFormed(raw)

\* the requests <<line number, index>> the first n lines of the input make:
\* the well-formed lines whose index passes the filter, in input order
RECURSIVE RequestsUpTo(_)
RequestsUpTo(n) ==
    IF n = 0 THEN <<>>
    ELSE RequestsUpTo(n - 1)
            \o (IF WellFormed(batch.file[n]) /\ in_filter(int(IndexPart(batch.file[n])))
                THEN <<<<n, int(IndexPart(batch.file[n]))>>>>
                ELSE <<>>)

\* the calls of update_view_text made so far, as <<line number, index>>
Attempts ==
    LET calls == SelectSeq(batch.log, LAMBDA e : e.kind = "update")
    IN  [k \in 1..Len(calls) |-> <<calls[k].lineno, calls[k].idx>>]

\* the run is over: "Done" was printed or an exception ended it
Over == batch.status \in {"done", "crashed"}

\* C15: of an input that decodes, the batch attempts every well-formed
\* request inside the filter exactly once and in input order, whatever failed
\* or was malformed before it: while it runs the attempts made are the
\* requests of the lines read, and when it is over those of the whole input
C15_EveryRequestOnce ==
    batch.encoding # "other" =>
        /\ batch.status = "running" => Attempts = RequestsUpTo(batch.pos)
        /\ Over => Attempts = RequestsUpTo(Len(batch.file))

\* C16: at the end processed, ok and skipped count the requests inside the
\* filter, those of them that succeeded, and the malformed lines; throughout
\* 0 <= ok <= processed, and processed + skipped is at most the number of
\* non-empty lines read
C16_Counters ==
    batch.encoding # "other" =>
        /\ 0 <= batch.ok /\ batch.ok <= batch.total
        /\ batch.total + batch.skipped
              <= Cardinality({k \in 1..batch.pos :
                                strip(batch.file[k], LineEnds) # <<>>})
        /\ batch.status = "done" =>
              /\ batch.total = Len(RequestsUpTo(Len(batch.file)))
              /\ batch.ok = Len(SelectSeq(batch.log, LAMBDA e : e.ok))
              /\ batch.skipped
                    = Cardinality({k \in 1..Len(batch.file) : Malformed(batch.file[k])})

\* the text the last successful real update of index i wrote is still where
\* it was written, when i was not targeted again since
TextKept(i) ==
    batch.applied[i] # <<>> =>
        ReadAt(vol, batch.applied[i][1], Len(batch.applied[i][2]))
            = batch.applied[i][2]

\* C17: at every point of a batch the text written by every earlier
\* successful update is still in VOL.0 unchanged, unless its index was
\* targeted again, whatever was applied to other indices afterwards
C17_PatchesStayIntact == \A i \in Indices : TextKept(i)

\* the offsets of the present entries of VIEWDIR increase with the index
Ordered ==
    \A i \in 0..(entry_count(viewdir) - 1) :
        \A j \in (i + 1)..(entry_count(viewdir) - 1) :
            (entry(viewdir, i) # ABSENT /\ entry(viewdir, j) # ABSENT)
                => entry(viewdir, i) < entry(viewdir, j)

\* C17 amended: the same when the offsets of the present directory entries
\* increase with the index
C17_IntactWhenOrdered == Ordered => \A i \in Indices : TextKept(i)

\* index 0 was patched with a text, index 1 was patched after it
C17_Witness ==
    /\ Ordered
    /\ batch.applied[0] # <<>> /\ batch.applied[0][2] # <<>>
    /\ batch.applied[1] # <<>>
    /\ last.op = "update" /\ last.index = 1 /\ last.ok /\ ~last.dry_run

\* C18: when VIEWDIR or VOL.0 is missing at the start of a run, the run
\* attempts no update and gives no per-index result
C18_AbortsWhenFileMissing ==
    (~batch.have_dir \/ ~batch.have_vol) =>
        /\ batch.total = 0
        /\ Attempts = <<>>

(* ----------------------- writes to different indices ------------------ *)
\* every present entry of VIEWDIR lies below the end of VOL.0
Below ==
    \A i \in 0..(entry_count(viewdir) - 1) :
        entry(viewdir, i) # ABSENT => entry(viewdir, i) < Len(vol)

\* the bytes of the store from position from up to, not including, position to
Range(from, to) == from..(to - 1)

\* the write of message to index, made next
WriteNext(index, message) ==
    update_view_text(index, message, viewdir, vol, FALSE)

\* C28: when the present directory offsets increase strictly with the index
\* and all lie below the store length, a successful write and a successful
\* write to a different index modify disjoint byte ranges of the store
C28_WritesDisjoint ==
    (Wrote /\ Ordered /\ Below) =>
        \A j \in Indices \ {last.index} : \A m \in Messages :
            LET r == WriteNext(j, m)
            IN  r.ok =>
                  Range(last.payload_start, last.payload_start + Len(last.buf))
                      \cap Range(r.payload_start, r.payload_start + Len(r.buf))
                    = {}

\* index 0 was written in a store where index 1 can be written as well
C28_Witness ==
    /\ Wrote /\ Ordered /\ Below /\ last.index = 0 /\ last.new_bytes # <<>>
    /\ WriteNext(1, <<65>>).ok

(* --------------------------- the lines of a batch --------------------- *)
\* C29: the reader hands each input line to the applier at most once, also
\* when decoding fails part-way and the reader falls back to the second
\* encoding: no line number has two update calls
C29_EachLineOnce ==
    \A a \in 1..Len(Attempts) : \A b \in 1..Len(Attempts) :
        a # b => Attempts[a][1] # Attempts[b][1]

\* the last entry of the log is a successful write of the batch
Applied ==
    /\ batch.status # "none" /\ batch.log # <<>>
    /\ batch.log[Len(batch.log)].kind = "update"
    /\ Wrote

\* the text of the input line the last update was made for
LineText == parse_line(batch.file[batch.log[Len(batch.log)].lineno]).msg

\* C30: the bytes encoded and written for a request are the text of the
\* input line reversed exactly once
C30_ReversedOnce ==
    Applied =>
        /\ last.new_bytes = encode_cp1255(Reverse(LineText))
        /\ ReadAt(vol, last.payload_start, Len(last.new_bytes))
              = encode_cp1255(Reverse(LineText))

\* the bytes written are the text of the input line in its own order
WrittenAsGiven ==
    Applied =>
        ReadAt(vol, last.payload_start, Len(last.new_bytes))
            = encode_cp1255(LineText)

====
